---- MODULE Spec2Model ----
(***************************************************************************)
(* Project manager: the Supabase store (tables, row-level security         *)
(* policies) and the three React views that write to it (Dashboard,        *)
(* ProjectBoard, TaskModal).                                               *)
(*                                                                         *)
(* A policy's sub-select is evaluated on the rows of the table it names,   *)
(* with SQL's name resolution: an unqualified column belongs to the        *)
(* innermost query that has a column of that name.  Every store call may   *)
(* also fail for a reason of its own (transport, an error raised by the    *)
(* engine): the handlers' catch branches are reachable from every call.    *)
(***************************************************************************)
EXTENDS Integers, Sequences, FiniteSets, TLC

\* ----------------------------------------------------------------- bounds
NumUsers == 2
MaxProjects == 2
\* ids the store hands out in the store-level specification, after its initial rows
MaxNewIds == 3
\* tasks created on the board
MaxTasks == 2
\* tasks the board holds when the create dialog is studied, and their largest position
MaxLoaded == 2
MaxPosition == 2
\* assignment rows inserted from the task modal
MaxAssigns == 2
\* the largest title typed into the task form (titles are 0..MaxTitle)
MaxTitle == 1

Users == 1..NumUsers
\* one browser session per identity
Clients == Users

\* ------------------------------------------------------------- the schema
\* CREATE TYPE public.task_status
task_status == {"todo", "in_progress", "review", "done"}
\* CREATE TYPE public.project_role
project_role == {"owner", "admin", "member"}

VARIABLES
    db_projects,          \* public.projects: [id, owner_id]
    db_project_members,   \* public.project_members: [id, project_id, user_id, role]
    db_boards,            \* public.boards: [id, project_id, position]
    db_tasks,             \* public.tasks: [id, board_id, title, status, position, created_by]
    db_task_assignments,  \* public.task_assignments: [id, task_id, user_id]
    db_comments,          \* public.comments: [id, task_id, user_id]
    nextId,               \* gen_random_uuid(): the next fresh id (also the creation clock)
    resp,                 \* the store's answer to the request it served last
    user,                 \* useAuth(), per client: the identity signed in (0: nobody)
    projects,             \* Dashboard state, per client: the list shown
    project,              \* per client: handleCreateProject's inserted row; ProjectBoard's project
    board,                \* ProjectBoard state, per client: the board loaded
    tasks,                \* ProjectBoard state, per client: the task list loaded
    newTaskStatus,        \* ProjectBoard state, per client: the column of the create dialog
    selectedTask,         \* ProjectBoard state, per client: the task the modal shows
    pc,                   \* per client: where its running handler stands
    calls,                \* per client: the store calls its current user action has issued
    toasts                \* per client: the notifications its current user action has raised

projectTables == <<db_projects, db_project_members, db_boards>>
taskTables == <<db_tasks, db_task_assignments, db_comments>>
storeVars == <<projectTables, taskTables, nextId>>
dashVars == <<projects, project>>
boardVars == <<board, tasks, newTaskStatus, selectedTask>>
clientVars == <<pc, calls, toasts>>
vars == <<storeVars, resp, user, dashVars, boardVars, clientVars>>

NoRow == [id |-> 0]
NoResp == [op |-> "none"]

\* --------------------------------------------------------------- helpers
RECURSIVE OrderByIdDesc(_)
\* .order('created_at', { ascending: false }): ids are handed out in creation order
OrderByIdDesc(S) ==
    IF S = {} THEN <<>>
    ELSE LET r == CHOOSE x \in S : \A y \in S : y.id <= x.id
         IN <<r>> \o OrderByIdDesc(S \ {r})

Range(s) == {s[i] : i \in 1..Len(s)}

\* ------------------------------------------------- row-level security
\* "Users can view projects they're members of": inside the sub-select the
\* unqualified id is project_members.id, not projects.id
PolicyProjectsSelect(uid, p) ==
    \/ uid \in {m.user_id : m \in {x \in db_project_members : x.project_id = x.id}}
    \/ p.owner_id = uid

\* "Users can create projects"
PolicyProjectsInsert(uid, p) == uid = p.owner_id

\* "Project owners can delete projects"
PolicyProjectsDelete(uid, p) == uid = p.owner_id

\* "Users can view project members for their projects": the sub-select has no
\* alias, so project_members.project_id is its own row's column
PolicyMembersSelect(uid, r) ==
    uid \in {m.user_id : m \in {x \in db_project_members : x.project_id = x.project_id}}

\* "Project owners can manage members" (FOR ALL)
PolicyMembersAll(uid, r) ==
    uid \in {p.owner_id : p \in {x \in db_projects : x.id = r.project_id}}

\* "Users can view boards for their projects" / "Project members can manage boards"
PolicyBoardsAll(uid, b) ==
    uid \in {m.user_id : m \in {x \in db_project_members : x.project_id = b.project_id}}


\* the policy with the join to the task's board left out
PolicyTasksAll_AnyProject(uid, t) ==
    uid \in {pm.user_id : pm \in db_project_members}

\* "Users can view tasks for their projects" / "Project members can manage tasks"
PolicyTasksAll(uid, t) ==
    uid \in {pm.user_id : pm \in {x \in db_project_members :
                \E b \in db_boards : b.project_id = x.project_id /\ b.id = t.board_id}}

\* "Users can view task assignments for their projects" /
\* "Project members can manage task assignments"
PolicyAssignmentsAll(uid, a) ==
    uid \in {pm.user_id : pm \in {x \in db_project_members :
                \E b \in db_boards, t \in db_tasks :
                    /\ b.project_id = x.project_id
                    /\ t.board_id = b.id
                    /\ t.id = a.task_id}}

\* "Users can view comments for their projects"
PolicyCommentsSelect(uid, cm) ==
    uid \in {pm.user_id : pm \in {x \in db_project_members :
                \E b \in db_boards, t \in db_tasks :
                    /\ b.project_id = x.project_id
                    /\ t.board_id = b.id
                    /\ t.id = cm.task_id}}

\* "Project members can create comments"
PolicyCommentsInsert(uid, cm) ==
    /\ PolicyCommentsSelect(uid, cm)
    /\ uid = cm.user_id

\* the rows of a table a SELECT by uid returns
VisibleProjects(uid) == {p \in db_projects : PolicyProjectsSelect(uid, p)}
VisibleMembers(uid) ==
    {r \in db_project_members : PolicyMembersSelect(uid, r) \/ PolicyMembersAll(uid, r)}
VisibleBoards(uid) == {b \in db_boards : PolicyBoardsAll(uid, b)}

\* --------------------------------------------------------- constraints
\* project_members: UNIQUE(project_id, user_id), project_id REFERENCES projects
MemberInsertOk(uid, r) ==
    /\ PolicyMembersAll(uid, r)
    /\ \E p \in db_projects : p.id = r.project_id
    /\ ~\E m \in db_project_members : m.project_id = r.project_id /\ m.user_id = r.user_id

\* boards: project_id REFERENCES projects
BoardInsertOk(uid, b) ==
    /\ PolicyBoardsAll(uid, b)
    /\ \E p \in db_projects : p.id = b.project_id

\* tasks: board_id REFERENCES boards; the FOR ALL policy is the insert's WITH CHECK
TaskInsertOk(uid, t) ==
    /\ PolicyTasksAll(uid, t)
    /\ \E b \in db_boards : b.id = t.board_id


\* the table without its UNIQUE(task_id, user_id)
AssignmentInsertOk_NoUnique(uid, a) ==
    /\ PolicyAssignmentsAll(uid, a)
    /\ \E t \in db_tasks : t.id = a.task_id

\* task_assignments: UNIQUE(task_id, user_id), task_id REFERENCES tasks
AssignmentInsertOk(uid, a) ==
    /\ PolicyAssignmentsAll(uid, a)
    /\ \E t \in db_tasks : t.id = a.task_id
    /\ ~\E x \in db_task_assignments : x.task_id = a.task_id /\ x.user_id = a.user_id

\* comments: task_id REFERENCES tasks
CommentInsertOk(uid, cm) ==
    /\ PolicyCommentsInsert(uid, cm)
    /\ \E t \in db_tasks : t.id = cm.task_id

\* ON DELETE CASCADE from tasks: the assignments and comments of the tasks in gone
AssignmentsWithout(gone) == {a \in db_task_assignments : a.task_id \notin {t.id : t \in gone}}
CommentsWithout(gone) == {cm \in db_comments : cm.task_id \notin {t.id : t \in gone}}

\* ------------------------------------------------------------ Dashboard
\* one store call: what was asked, of which table, with which row, and whether it succeeded
Call(op, table, row, ok) == [op |-> op, table |-> table, row |-> row, ok |-> ok]

\* the rows fetchProjects' query returns for uid: projects with the embedded
\* project_members!inner(id), newest first, and the member_count it adds
FetchProjectsRows(uid) ==
    LET embedded(p) == {m \in VisibleMembers(uid) : m.project_id = p.id}
        joined == {p \in VisibleProjects(uid) : embedded(p) # {}}
    IN  OrderByIdDesc({[id |-> p.id, owner_id |-> p.owner_id,
                        member_count |-> Cardinality(embedded(p))] : p \in joined})

\* fetchProjects: the response of the select; an error leaves the list as it is
fetchProjects(c) ==
    /\ pc[c] = "fetchProjects"
    /\ \E ok \in BOOLEAN :
         /\ calls' = [calls EXCEPT ![c] = Append(@, Call("select", "projects", NoRow, ok))]
         /\ IF ok
            THEN /\ projects' = [projects EXCEPT ![c] = FetchProjectsRows(user[c])]
                 /\ toasts' = toasts
            ELSE /\ projects' = projects
                 /\ toasts' = [toasts EXCEPT ![c] = Append(@, "Error")]
    /\ pc' = [pc EXCEPT ![c] = "idle"]
    /\ UNCHANGED <<user, boardVars, storeVars, resp, project>>

\* useEffect: the dashboard mounts (or is reloaded) and calls fetchProjects
Mount(c) ==
    /\ pc[c] = "idle"
    /\ pc' = [pc EXCEPT ![c] = "fetchProjects"]
    /\ calls' = [calls EXCEPT ![c] = <<>>]
    /\ toasts' = [toasts EXCEPT ![c] = <<>>]
    /\ UNCHANGED <<user, boardVars, storeVars, resp, projects, project>>

\* handleCreateProject, first await: insert into projects ... .select().single()
handleCreateProject(c) ==
    /\ pc[c] = "idle"
    /\ Cardinality(db_projects) < MaxProjects
    /\ \E ok \in BOOLEAN :
         LET row == [id |-> nextId, owner_id |-> user[c]]
             done == ok /\ PolicyProjectsInsert(user[c], row)
         IN  /\ calls' = [calls EXCEPT ![c] = <<Call("insert", "projects", row, done)>>]
             /\ IF done
                THEN /\ db_projects' = db_projects \cup {row}
                     /\ nextId' = nextId + 1
                     /\ project' = [project EXCEPT ![c] = row]
                     /\ pc' = [pc EXCEPT ![c] = "memberInsert"]
                     /\ toasts' = [toasts EXCEPT ![c] = <<>>]
                ELSE /\ UNCHANGED <<db_projects, nextId, project, pc>>
                     /\ toasts' = [toasts EXCEPT ![c] = <<"Error">>]
    /\ UNCHANGED <<user, boardVars, db_project_members, db_boards, taskTables, resp, projects>>


\* the membership insert without a role: the column default applies
createProjectMember_DefaultRole(c) ==
    /\ pc[c] = "memberInsert"
    /\ \E ok \in BOOLEAN :
         LET row == [id |-> nextId, project_id |-> project[c].id, user_id |-> user[c],
                     role |-> "member"]
             done == ok /\ MemberInsertOk(user[c], row)
         IN  /\ calls' = [calls EXCEPT ![c] = Append(@, Call("insert", "project_members", row, done))]
             /\ IF done
                THEN /\ db_project_members' = db_project_members \cup {row}
                     /\ nextId' = nextId + 1
                     /\ pc' = [pc EXCEPT ![c] = "boardInsert"]
                     /\ toasts' = toasts
                ELSE /\ UNCHANGED <<db_project_members, nextId>>
                     /\ pc' = [pc EXCEPT ![c] = "idle"]
                     /\ toasts' = [toasts EXCEPT ![c] = Append(@, "Error")]
    /\ UNCHANGED <<user, boardVars, db_projects, db_boards, taskTables, resp, projects, project>>

\* the membership insert whose error is not thrown: the board insert follows
createProjectMember_NoThrow(c) ==
    /\ pc[c] = "memberInsert"
    /\ \E ok \in BOOLEAN :
         LET row == [id |-> nextId, project_id |-> project[c].id, user_id |-> user[c],
                     role |-> "owner"]
             done == ok /\ MemberInsertOk(user[c], row)
         IN  /\ calls' = [calls EXCEPT ![c] = Append(@, Call("insert", "project_members", row, done))]
             /\ db_project_members' = IF done THEN db_project_members \cup {row}
                                      ELSE db_project_members
             /\ nextId' = IF done THEN nextId + 1 ELSE nextId
             /\ pc' = [pc EXCEPT ![c] = "boardInsert"]
             /\ toasts' = toasts
    /\ UNCHANGED <<user, boardVars, db_projects, db_boards, taskTables, resp, projects, project>>

\* handleCreateProject, second await: insert into project_members (role owner)
createProjectMember(c) ==
    /\ pc[c] = "memberInsert"
    /\ \E ok \in BOOLEAN :
         LET row == [id |-> nextId, project_id |-> project[c].id, user_id |-> user[c],
                     role |-> "owner"]
             done == ok /\ MemberInsertOk(user[c], row)
         IN  /\ calls' = [calls EXCEPT ![c] = Append(@, Call("insert", "project_members", row, done))]
             /\ IF done
                THEN /\ db_project_members' = db_project_members \cup {row}
                     /\ nextId' = nextId + 1
                     /\ pc' = [pc EXCEPT ![c] = "boardInsert"]
                     /\ toasts' = toasts
                ELSE /\ UNCHANGED <<db_project_members, nextId>>
                     /\ pc' = [pc EXCEPT ![c] = "idle"]
                     /\ toasts' = [toasts EXCEPT ![c] = Append(@, "Error")]
    /\ UNCHANGED <<user, boardVars, db_projects, db_boards, taskTables, resp, projects, project>>


\* the board insert that deletes the project again when it fails
createProjectBoard_Rollback(c) ==
    /\ pc[c] = "boardInsert"
    /\ \E ok \in BOOLEAN :
         LET row == [id |-> nextId, project_id |-> project[c].id, position |-> 0]
             done == ok /\ BoardInsertOk(user[c], row)
         IN  /\ calls' = [calls EXCEPT ![c] = Append(@, Call("insert", "boards", row, done))]
             /\ IF done
                THEN /\ db_boards' = db_boards \cup {row}
                     /\ nextId' = nextId + 1
                     /\ pc' = [pc EXCEPT ![c] = "fetchProjects"]
                     /\ toasts' = [toasts EXCEPT ![c] = Append(@, "Success")]
                     /\ UNCHANGED <<db_projects, db_project_members>>
                ELSE /\ UNCHANGED <<db_boards, nextId>>
                     /\ db_projects' = db_projects \ {project[c]}
                     /\ db_project_members' =
                            {m \in db_project_members : m.project_id # project[c].id}
                     /\ pc' = [pc EXCEPT ![c] = "idle"]
                     /\ toasts' = [toasts EXCEPT ![c] = Append(@, "Error")]
    /\ UNCHANGED <<user, boardVars, taskTables, resp, projects, project>>

\* handleCreateProject, third await: insert into boards, then the success
\* toast and the call of fetchProjects
createProjectBoard(c) ==
    /\ pc[c] = "boardInsert"
    /\ \E ok \in BOOLEAN :
         LET row == [id |-> nextId, project_id |-> project[c].id, position |-> 0]
             done == ok /\ BoardInsertOk(user[c], row)
         IN  /\ calls' = [calls EXCEPT ![c] = Append(@, Call("insert", "boards", row, done))]
             /\ IF done
                THEN /\ db_boards' = db_boards \cup {row}
                     /\ nextId' = nextId + 1
                     /\ pc' = [pc EXCEPT ![c] = "fetchProjects"]
                     /\ toasts' = [toasts EXCEPT ![c] = Append(@, "Success")]
                ELSE /\ UNCHANGED <<db_boards, nextId>>
                     /\ pc' = [pc EXCEPT ![c] = "idle"]
                     /\ toasts' = [toasts EXCEPT ![c] = Append(@, "Error")]
    /\ UNCHANGED <<user, boardVars, db_projects, db_project_members, taskTables, resp, projects, project>>

\* a project's owner adds another identity to it: an insert into
\* project_members that "Project owners can manage members" admits
addProjectMember(uid) ==
    /\ \E p \in db_projects, v \in Users \ {uid} :
         LET row == [id |-> nextId, project_id |-> p.id, user_id |-> v, role |-> "member"]
         IN  /\ MemberInsertOk(uid, row)
             /\ db_project_members' = db_project_members \cup {row}
             /\ nextId' = nextId + 1
    /\ UNCHANGED <<user, boardVars, db_projects, db_boards, taskTables, resp, dashVars, clientVars>>

\* no page has loaded anything yet
InitViews ==
    /\ projects = [c \in Clients |-> <<>>]
    /\ project = [c \in Clients |-> NoRow]
    /\ board = [c \in Clients |-> NoRow]
    /\ tasks = [c \in Clients |-> <<>>]
    /\ newTaskStatus = [c \in Clients |-> ""]
    /\ selectedTask = [c \in Clients |-> NoRow]
    /\ pc = [c \in Clients |-> "idle"]
    /\ calls = [c \in Clients |-> <<>>]
    /\ toasts = [c \in Clients |-> <<>>]

InitDash ==
    /\ db_projects = {}
    /\ db_project_members = {}
    /\ db_boards = {}
    /\ db_tasks = {}
    /\ db_task_assignments = {}
    /\ db_comments = {}
    /\ nextId = 1
    /\ resp = NoResp
    /\ user = [c \in Clients |-> c]
    /\ InitViews

NextDash ==
    \/ \E c \in Clients :
        \/ Mount(c)
        \/ fetchProjects(c)
        \/ handleCreateProject(c)
        \/ createProjectMember(c)
        \/ createProjectBoard(c)
    \/ \E uid \in Users : addProjectMember(uid)

SpecDash == InitDash /\ [][NextDash]_vars
\* ------------------------------------------------- requests to the store
\* Any signed-in identity may send any request to the store's API; the
\* policies alone decide.  A request is served whole, and its answer is read
\* before the next one is sent.
Resp(op, table, uid, row, ok, rows) ==
    [op |-> op, table |-> table, uid |-> uid, row |-> row, ok |-> ok, rows |-> rows]

\* the ids of the rows InitStore holds
InitIds == 3 * NumUsers

CanAllocate == nextId <= InitIds + MaxNewIds

\* select * from projects
StoreSelectProjects(uid) ==
    /\ resp = NoResp
    /\ resp' = Resp("select", "projects", uid, NoRow, TRUE, VisibleProjects(uid))
    /\ UNCHANGED <<user, boardVars, storeVars, dashVars, clientVars>>

\* select * from project_members
StoreSelectMembers(uid) ==
    /\ resp = NoResp
    /\ resp' = Resp("select", "project_members", uid, NoRow, TRUE, VisibleMembers(uid))
    /\ UNCHANGED <<user, boardVars, storeVars, dashVars, clientVars>>

\* insert into tasks (status and position take the column defaults)
StoreInsertTask(uid) ==
    /\ resp = NoResp
    /\ CanAllocate
    /\ \E b \in db_boards :
         LET row == [id |-> nextId, board_id |-> b.id, title |-> 0, status |-> "todo",
                     position |-> 0, created_by |-> uid]
             done == TaskInsertOk(uid, row)
         IN  /\ db_tasks' = IF done THEN db_tasks \cup {row} ELSE db_tasks
             /\ nextId' = IF done THEN nextId + 1 ELSE nextId
             /\ resp' = Resp("insert", "tasks", uid, row, done, IF done THEN {row} ELSE {})
    /\ UNCHANGED <<user, boardVars, projectTables, db_task_assignments, db_comments, dashVars, clientVars>>

\* update tasks set status = 'done' where id = ...: USING selects the rows, and
\* (no WITH CHECK being given) is also the check of the new row
StoreUpdateTask(uid) ==
    /\ resp = NoResp
    /\ \E t \in db_tasks :
         LET new == [t EXCEPT !.status = "done"]
             hit == PolicyTasksAll(uid, t)
             done == hit /\ PolicyTasksAll(uid, new)
         IN  /\ db_tasks' = IF done THEN (db_tasks \ {t}) \cup {new} ELSE db_tasks
             /\ resp' = Resp("update", "tasks", uid, t, hit => done, IF done THEN {new} ELSE {})
    /\ UNCHANGED <<user, boardVars, projectTables, db_task_assignments, db_comments, nextId, dashVars, clientVars>>

\* delete from tasks where id = ...: rows USING hides are not deleted, without an error
StoreDeleteTask(uid) ==
    /\ resp = NoResp
    /\ \E t \in db_tasks :
         LET gone == IF PolicyTasksAll(uid, t) THEN {t} ELSE {}
         IN  /\ db_tasks' = db_tasks \ gone
             /\ db_task_assignments' = AssignmentsWithout(gone)
             /\ db_comments' = CommentsWithout(gone)
             /\ resp' = Resp("delete", "tasks", uid, t, TRUE, gone)
    /\ UNCHANGED <<user, boardVars, projectTables, nextId, dashVars, clientVars>>

\* insert into task_assignments
StoreInsertAssignment(uid) ==
    /\ resp = NoResp
    /\ CanAllocate
    /\ \E t \in db_tasks, v \in Users :
         LET row == [id |-> nextId, task_id |-> t.id, user_id |-> v]
             done == AssignmentInsertOk(uid, row)
         IN  /\ db_task_assignments' =
                    IF done THEN db_task_assignments \cup {row} ELSE db_task_assignments
             /\ nextId' = IF done THEN nextId + 1 ELSE nextId
             /\ resp' = Resp("insert", "task_assignments", uid, row, done,
                             IF done THEN {row} ELSE {})
    /\ UNCHANGED <<user, boardVars, projectTables, db_tasks, db_comments, dashVars, clientVars>>

\* update task_assignments set user_id = ... where task_id = ... and user_id = ...
StoreUpdateAssignment(uid) ==
    /\ resp = NoResp
    /\ \E a \in db_task_assignments : \E v \in Users \ {a.user_id} :
         LET new == [a EXCEPT !.user_id = v]
             hit == PolicyAssignmentsAll(uid, a)
             done == /\ hit
                     /\ PolicyAssignmentsAll(uid, new)
                     /\ ~\E x \in db_task_assignments :
                            x.task_id = new.task_id /\ x.user_id = new.user_id
         IN  /\ db_task_assignments' =
                    IF done THEN (db_task_assignments \ {a}) \cup {new}
                    ELSE db_task_assignments
             /\ resp' = Resp("update", "task_assignments", uid, a, hit => done,
                             IF done THEN {new} ELSE {})
    /\ UNCHANGED <<user, boardVars, projectTables, db_tasks, db_comments, nextId, dashVars, clientVars>>

\* delete from task_assignments where task_id = ... and user_id = ...
StoreDeleteAssignment(uid) ==
    /\ resp = NoResp
    /\ \E a \in db_task_assignments :
         LET gone == IF PolicyAssignmentsAll(uid, a) THEN {a} ELSE {}
         IN  /\ db_task_assignments' = db_task_assignments \ gone
             /\ resp' = Resp("delete", "task_assignments", uid, a, TRUE, gone)
    /\ UNCHANGED <<user, boardVars, projectTables, db_tasks, db_comments, nextId, dashVars, clientVars>>

\* insert into comments
StoreInsertComment(uid) ==
    /\ resp = NoResp
    /\ CanAllocate
    /\ \E t \in db_tasks, author \in Users :
         LET row == [id |-> nextId, task_id |-> t.id, user_id |-> author]
             done == CommentInsertOk(uid, row)
         IN  /\ db_comments' = IF done THEN db_comments \cup {row} ELSE db_comments
             /\ nextId' = IF done THEN nextId + 1 ELSE nextId
             /\ resp' = Resp("insert", "comments", uid, row, done, IF done THEN {row} ELSE {})
    /\ UNCHANGED <<user, boardVars, projectTables, db_tasks, db_task_assignments, dashVars, clientVars>>

\* insert into project_members
StoreInsertMember(uid) ==
    /\ resp = NoResp
    /\ CanAllocate
    /\ addProjectMember(uid)

\* delete from project_members where id = ...
StoreDeleteMember(uid) ==
    /\ resp = NoResp
    /\ \E m \in db_project_members :
         /\ PolicyMembersAll(uid, m)
         /\ db_project_members' = db_project_members \ {m}
    /\ UNCHANGED <<user, boardVars, db_projects, db_boards, taskTables, nextId, resp, dashVars, clientVars>>


\* the delete of a project whose tasks' foreign key does not cascade
StoreDeleteProject_TasksKept(uid) ==
    /\ resp = NoResp
    /\ \E p \in db_projects :
         LET gone == IF PolicyProjectsSelect(uid, p) /\ PolicyProjectsDelete(uid, p)
                     THEN {p} ELSE {}
             pids == {x.id : x \in gone}
         IN  /\ db_projects' = db_projects \ gone
             /\ db_project_members' = {m \in db_project_members : m.project_id \notin pids}
             /\ db_boards' = {b \in db_boards : b.project_id \notin pids}
             /\ resp' = Resp("delete", "projects", uid, p, TRUE, gone)
    /\ UNCHANGED <<user, boardVars, taskTables, nextId, dashVars, clientVars>>

\* delete from projects where id = ...: only the owner's delete touches the
\* row; ON DELETE CASCADE removes the members and boards of the project, the
\* tasks of those boards, and the assignments and comments of those tasks
StoreDeleteProject(uid) ==
    /\ resp = NoResp
    /\ \E p \in db_projects :
         LET gone == IF PolicyProjectsSelect(uid, p) /\ PolicyProjectsDelete(uid, p)
                     THEN {p} ELSE {}
             pids == {x.id : x \in gone}
             goneBoards == {b \in db_boards : b.project_id \in pids}
             goneTasks == {t \in db_tasks : t.board_id \in {b.id : b \in goneBoards}}
         IN  /\ db_projects' = db_projects \ gone
             /\ db_project_members' = {m \in db_project_members : m.project_id \notin pids}
             /\ db_boards' = db_boards \ goneBoards
             /\ db_tasks' = db_tasks \ goneTasks
             /\ db_task_assignments' = AssignmentsWithout(goneTasks)
             /\ db_comments' = CommentsWithout(goneTasks)
             /\ resp' = Resp("delete", "projects", uid, p, TRUE, gone)
    /\ UNCHANGED <<user, boardVars, nextId, dashVars, clientVars>>

\* the answer is read
StoreAnswerRead ==
    /\ resp # NoResp
    /\ resp' = NoResp
    /\ UNCHANGED <<user, boardVars, storeVars, dashVars, clientVars>>

\* every identity has created one project on its dashboard
InitStore ==
    /\ db_projects = {[id |-> 3 * u - 2, owner_id |-> u] : u \in Users}
    /\ db_project_members =
          {[id |-> 3 * u - 1, project_id |-> 3 * u - 2, user_id |-> u, role |-> "owner"] :
              u \in Users}
    /\ db_boards = {[id |-> 3 * u, project_id |-> 3 * u - 2, position |-> 0] : u \in Users}
    /\ db_tasks = {}
    /\ db_task_assignments = {}
    /\ db_comments = {}
    /\ nextId = InitIds + 1
    /\ resp = NoResp
    /\ user = [c \in Clients |-> c]
    /\ InitViews

NextStore ==
    \/ \E uid \in Users :
        \/ StoreSelectProjects(uid)
        \/ StoreSelectMembers(uid)
        \/ StoreInsertTask(uid)
        \/ StoreUpdateTask(uid)
        \/ StoreDeleteTask(uid)
        \/ StoreInsertAssignment(uid)
        \/ StoreUpdateAssignment(uid)
        \/ StoreDeleteAssignment(uid)
        \/ StoreInsertComment(uid)
        \/ StoreInsertMember(uid)
        \/ StoreDeleteMember(uid)
        \/ StoreDeleteProject(uid)
    \/ StoreAnswerRead

SpecStore == InitStore /\ [][NextStore]_vars

\* ---------------------------------------------------------- ProjectBoard
\* STATUS_COLUMNS' ids, in their order
STATUS_COLUMNS == <<"todo", "in_progress", "review", "done">>

\* fetchTasks' map: a row with its embedded task_assignments and comments
TaskView(uid, t) ==
    [id |-> t.id, board_id |-> t.board_id, title |-> t.title, status |-> t.status,
     position |-> t.position, created_by |-> t.created_by,
     assignees |-> {a.user_id : a \in {x \in db_task_assignments :
                        x.task_id = t.id /\ PolicyAssignmentsAll(uid, x)}},
     comments_count |-> Cardinality({cm \in db_comments :
                        cm.task_id = t.id /\ PolicyCommentsSelect(uid, cm)})]

\* .order('position'): ascending; rows of equal position come in any order
OrdersByPosition(S) ==
    {s \in [1..Cardinality(S) -> S] :
        \A i, j \in 1..Cardinality(S) :
            i < j => s[i] # s[j] /\ s[i].position <= s[j].position}

\* the answers fetchTasks' query may get
FetchTasksRows(uid, boardId) ==
    OrdersByPosition({TaskView(uid, t) :
        t \in {x \in db_tasks : x.board_id = boardId /\ PolicyTasksAll(uid, x)}})

RECURSIVE MathMax(_)
\* Math.max(...xs)
MathMax(xs) ==
    IF Len(xs) = 1 THEN xs[1]
    ELSE LET m == MathMax(Tail(xs)) IN IF xs[1] >= m THEN xs[1] ELSE m

\* tasks.filter(t => t.status === status)
FilterStatus(ts, status) == SelectSeq(ts, LAMBDA t : t.status = status)


\* the column's length taken for its largest position
maxPosition_Count(ts, status) == Len(FilterStatus(ts, status)) - 1

\* Math.max(...tasks.filter(t => t.status === newTaskStatus).map(t => t.position), -1)
maxPosition(ts, status) ==
    LET col == FilterStatus(ts, status)
    IN  MathMax([i \in 1..Len(col) |-> col[i].position] \o <<-1>>)

RECURSIVE SortByPosition(_)
\* .sort((a, b) => a.position - b.position): stable
SortByPosition(ts) ==
    IF Len(ts) <= 1 THEN ts
    ELSE LET front == SortByPosition(SubSeq(ts, 1, Len(ts) - 1))
             x == ts[Len(ts)]
             k == Cardinality({i \in 1..Len(front) : front[i].position <= x.position})
         IN  SubSeq(front, 1, k) \o <<x>> \o SubSeq(front, k + 1, Len(front))

\* every task put in every column
getTasksByStatus_NoFilter(ts, status) == SortByPosition(ts)

\* getTasksByStatus: the column's tasks, ascending by position
getTasksByStatus(ts, status) == SortByPosition(FilterStatus(ts, status))

\* the ids handed out before the board page is opened: the project, its
\* memberships, its board, and the tasks it may already hold
BoardIds == 2 + NumUsers + MaxLoaded

\* the board page is shown and no dialog covers it
BoardShown(c) ==
    /\ user[c] # 0
    /\ pc[c] = "idle"
    /\ board[c] # NoRow
    /\ selectedTask[c] = NoRow

\* useEffect -> fetchProjectData: the project, then its first board, then
\* the call of fetchTasks; an error sends the client back to the dashboard
fetchProjectData(c) ==
    /\ user[c] # 0
    /\ pc[c] = "idle"
    /\ board[c] = NoRow
    /\ \E p \in db_projects, ok1 \in BOOLEAN, ok2 \in BOOLEAN :
         LET projectRows == {x \in VisibleProjects(user[c]) : x.id = p.id}
             boardRows == {b \in VisibleBoards(user[c]) : b.project_id = p.id}
             first == {b \in boardRows : \A b2 \in boardRows : b.position <= b2.position}
             got1 == ok1 /\ Cardinality(projectRows) = 1
             got2 == ok2 /\ first # {}
             call1 == Call("select", "projects", NoRow, got1)
             call2 == Call("select", "boards", NoRow, got2)
         IN  /\ calls' = [calls EXCEPT ![c] = IF got1 THEN <<call1, call2>> ELSE <<call1>>]
             /\ project' = [project EXCEPT ![c] = IF got1 THEN p ELSE @]
             /\ IF got1 /\ got2
                THEN /\ \E b \in first : board' = [board EXCEPT ![c] = b]
                     /\ pc' = [pc EXCEPT ![c] = "fetchTasks"]
                     /\ toasts' = [toasts EXCEPT ![c] = <<>>]
                ELSE /\ UNCHANGED <<board, pc>>
                     /\ toasts' = [toasts EXCEPT ![c] = <<"Error">>]
    /\ UNCHANGED <<user, storeVars, resp, projects, tasks, newTaskStatus, selectedTask>>

\* fetchTasks: the answer of the select; an error leaves the list as it is
fetchTasks(c) ==
    /\ pc[c] = "fetchTasks"
    /\ \E ok \in BOOLEAN :
         /\ calls' = [calls EXCEPT ![c] = Append(@, Call("select", "tasks", NoRow, ok))]
         /\ IF ok
            THEN /\ \E rows \in FetchTasksRows(user[c], board[c].id) :
                        tasks' = [tasks EXCEPT ![c] = rows]
                 /\ toasts' = toasts
            ELSE /\ tasks' = tasks
                 /\ toasts' = [toasts EXCEPT ![c] = Append(@, "Error")]
    /\ pc' = [pc EXCEPT ![c] = "idle"]
    /\ UNCHANGED <<user, storeVars, resp, dashVars, board, newTaskStatus, selectedTask>>

\* openCreateTaskDialog: the + button of a column
openCreateTaskDialog(c) ==
    /\ BoardShown(c)
    /\ \E i \in 1..Len(STATUS_COLUMNS) :
         newTaskStatus' = [newTaskStatus EXCEPT ![c] = STATUS_COLUMNS[i]]
    /\ pc' = [pc EXCEPT ![c] = "createTaskOpen"]
    /\ calls' = [calls EXCEPT ![c] = <<>>]
    /\ toasts' = [toasts EXCEPT ![c] = <<>>]
    /\ UNCHANGED <<user, storeVars, resp, dashVars, board, tasks, selectedTask>>

\* the create dialog is dismissed
closeCreateTaskDialog(c) ==
    /\ pc[c] = "createTaskOpen"
    /\ pc' = [pc EXCEPT ![c] = "idle"]
    /\ UNCHANGED <<user, storeVars, resp, dashVars, boardVars, calls, toasts>>


\* handleCreateTask whose catch raises no notification and closes the dialog
handleCreateTask_SilentCatch(c) ==
    /\ pc[c] = "createTaskOpen"
    /\ board[c] # NoRow
    /\ nextId <= BoardIds + MaxTasks
    /\ \E ok \in BOOLEAN :
         LET row == [id |-> nextId, board_id |-> board[c].id, title |-> 0,
                     status |-> newTaskStatus[c],
                     position |-> maxPosition(tasks[c], newTaskStatus[c]) + 1,
                     created_by |-> user[c]]
             done == ok /\ TaskInsertOk(user[c], row)
         IN  /\ calls' = [calls EXCEPT ![c] = <<Call("insert", "tasks", NoRow, done)>>]
             /\ IF done
                THEN /\ db_tasks' = db_tasks \cup {row}
                     /\ nextId' = nextId + 1
                     /\ pc' = [pc EXCEPT ![c] = "fetchTasks"]
                     /\ toasts' = [toasts EXCEPT ![c] = <<"Success">>]
                ELSE /\ UNCHANGED <<db_tasks, nextId>>
                     /\ pc' = [pc EXCEPT ![c] = "idle"]
                     /\ toasts' = [toasts EXCEPT ![c] = <<>>]
    /\ UNCHANGED <<user, projectTables, db_task_assignments, db_comments, resp, dashVars,
                   boardVars>>

\* handleCreateTask: the insert; on success the dialog closes and fetchTasks
\* is called, on error the dialog stays
handleCreateTask(c) ==
    /\ pc[c] = "createTaskOpen"
    /\ board[c] # NoRow
    /\ nextId <= BoardIds + MaxTasks
    /\ \E ok \in BOOLEAN :
         LET row == [id |-> nextId, board_id |-> board[c].id, title |-> 0,
                     status |-> newTaskStatus[c],
                     position |-> maxPosition(tasks[c], newTaskStatus[c]) + 1,
                     created_by |-> user[c]]
             done == ok /\ TaskInsertOk(user[c], row)
         IN  /\ calls' = [calls EXCEPT ![c] = <<Call("insert", "tasks", NoRow, done)>>]
             /\ IF done
                THEN /\ db_tasks' = db_tasks \cup {row}
                     /\ nextId' = nextId + 1
                     /\ pc' = [pc EXCEPT ![c] = "fetchTasks"]
                     /\ toasts' = [toasts EXCEPT ![c] = <<"Success">>]
                ELSE /\ UNCHANGED <<db_tasks, nextId, pc>>
                     /\ toasts' = [toasts EXCEPT ![c] = <<"Error">>]
    /\ UNCHANGED <<user, projectTables, db_task_assignments, db_comments, resp, dashVars,
                   boardVars>>

\* the rows an update of task id by uid touches: USING hides the others
TasksHit(uid, id) == {t \in db_tasks : t.id = id /\ PolicyTasksAll(uid, t)}

\* what react-beautiful-dnd can report for the columns client c shows: the
\* card at index i of column src was dropped on nothing (dst = 0) or at
\* index j of column dst
DropResults(c) ==
    LET cols == [k \in 1..Len(STATUS_COLUMNS) |-> getTasksByStatus(tasks[c], STATUS_COLUMNS[k])]
        last(src, dst) == IF dst = 0 THEN 0
                          ELSE IF dst = src THEN Len(cols[dst]) - 1 ELSE Len(cols[dst])
    IN  UNION {UNION {{<<src, i, dst, j>> : i \in 0..(Len(cols[src]) - 1),
                                             j \in 0..last(src, dst)} :
                        dst \in 0..Len(STATUS_COLUMNS)} :
                 src \in 1..Len(STATUS_COLUMNS)}

\* result.draggableId: the id of the card at index i of column src
draggableId(c, d) == getTasksByStatus(tasks[c], STATUS_COLUMNS[d[1]])[d[2] + 1].id

\* !result.destination, or source and destination are the same place
DropInPlace(d) == d[3] = 0 \/ (d[1] = d[3] /\ d[2] = d[4])


\* handleDragEnd without the comparison of source and destination
dragEnd_NoEarlyReturn(c, d, ok) ==
    LET hit == TasksHit(user[c], draggableId(c, d))
        moved == {[t EXCEPT !.status = STATUS_COLUMNS[d[3]], !.position = d[4]] : t \in hit}
    IN  /\ IF d[3] = 0
           THEN /\ calls' = [calls EXCEPT ![c] = <<>>]
                /\ toasts' = [toasts EXCEPT ![c] = <<>>]
                /\ UNCHANGED <<db_tasks, pc>>
           ELSE /\ calls' = [calls EXCEPT ![c] = <<Call("update", "tasks", NoRow, ok)>>]
                /\ IF ok
                   THEN /\ db_tasks' = (db_tasks \ hit) \cup moved
                        /\ pc' = [pc EXCEPT ![c] = "fetchTasks"]
                        /\ toasts' = [toasts EXCEPT ![c] = <<>>]
                   ELSE /\ UNCHANGED <<db_tasks, pc>>
                        /\ toasts' = [toasts EXCEPT ![c] = <<"Error">>]
        /\ UNCHANGED <<user, projectTables, db_task_assignments, db_comments, nextId, resp,
                       dashVars, boardVars>>

\* handleDragEnd that also moves the destination column's later cards down by one
dragEnd_Renumber(c, d, ok) ==
    LET hit == TasksHit(user[c], draggableId(c, d))
        moved == {[t EXCEPT !.status = STATUS_COLUMNS[d[3]], !.position = d[4]] : t \in hit}
        below == {t \in db_tasks \ hit : /\ \E h \in hit : h.board_id = t.board_id
                                         /\ t.status = STATUS_COLUMNS[d[3]]
                                         /\ t.position >= d[4]}
        shifted == {[t EXCEPT !.position = @ + 1] : t \in below}
    IN  /\ IF DropInPlace(d)
           THEN /\ calls' = [calls EXCEPT ![c] = <<>>]
                /\ toasts' = [toasts EXCEPT ![c] = <<>>]
                /\ UNCHANGED <<db_tasks, pc>>
           ELSE /\ calls' = [calls EXCEPT ![c] = <<Call("update", "tasks", NoRow, ok)>>]
                /\ IF ok
                   THEN /\ db_tasks' = ((db_tasks \ hit) \ below) \cup moved \cup shifted
                        /\ pc' = [pc EXCEPT ![c] = "fetchTasks"]
                        /\ toasts' = [toasts EXCEPT ![c] = <<>>]
                   ELSE /\ UNCHANGED <<db_tasks, pc>>
                        /\ toasts' = [toasts EXCEPT ![c] = <<"Error">>]
        /\ UNCHANGED <<user, projectTables, db_task_assignments, db_comments, nextId, resp,
                       dashVars, boardVars>>

\* handleDragEnd on the drop result d = <<src, i, dst, j>>; ok: the update's answer
dragEnd(c, d, ok) ==
    LET hit == TasksHit(user[c], draggableId(c, d))
        moved == {[t EXCEPT !.status = STATUS_COLUMNS[d[3]], !.position = d[4]] : t \in hit}
    IN  /\ IF DropInPlace(d)
           THEN /\ calls' = [calls EXCEPT ![c] = <<>>]
                /\ toasts' = [toasts EXCEPT ![c] = <<>>]
                /\ UNCHANGED <<db_tasks, pc>>
           ELSE /\ calls' = [calls EXCEPT ![c] = <<Call("update", "tasks", NoRow, ok)>>]
                /\ IF ok
                   THEN /\ db_tasks' = (db_tasks \ hit) \cup moved
                        /\ pc' = [pc EXCEPT ![c] = "fetchTasks"]
                        /\ toasts' = [toasts EXCEPT ![c] = <<>>]
                   ELSE /\ UNCHANGED <<db_tasks, pc>>
                        /\ toasts' = [toasts EXCEPT ![c] = <<"Error">>]
        /\ UNCHANGED <<user, projectTables, db_task_assignments, db_comments, nextId, resp,
                       dashVars, boardVars>>

\* handleDragEnd: any drop the board shown allows
handleDragEnd(c) ==
    /\ BoardShown(c)
    /\ \E d \in DropResults(c), ok \in BOOLEAN : dragEnd(c, d, ok)

\* openTaskModal: a click on a card
openTaskModal(c) ==
    /\ BoardShown(c)
    /\ \E i \in 1..Len(tasks[c]) : selectedTask' = [selectedTask EXCEPT ![c] = tasks[c][i]]
    /\ calls' = [calls EXCEPT ![c] = <<>>]
    /\ toasts' = [toasts EXCEPT ![c] = <<>>]
    /\ UNCHANGED <<user, storeVars, resp, dashVars, board, tasks, newTaskStatus, pc>>

\* the modal is open and no call of its own is under way
ModalShown(c) ==
    /\ pc[c] = "idle"
    /\ selectedTask[c] # NoRow

\* onClose of the modal
onClose(c) ==
    /\ ModalShown(c)
    /\ selectedTask' = [selectedTask EXCEPT ![c] = NoRow]
    /\ UNCHANGED <<user, storeVars, resp, dashVars, board, tasks, newTaskStatus, clientVars>>

\* a save that sends only the fields the form changed
saveTask_OnlyEdited(c, title, status, ok) ==
    LET hit == TasksHit(user[c], selectedTask[c].id)
        saved == {[t EXCEPT !.title = IF title = selectedTask[c].title THEN @ ELSE title,
                            !.status = IF status = selectedTask[c].status THEN @ ELSE status] :
                     t \in hit}
    IN  /\ calls' = [calls EXCEPT ![c] = <<Call("update", "tasks", NoRow, ok)>>]
        /\ IF ok
           THEN /\ db_tasks' = (db_tasks \ hit) \cup saved
                /\ pc' = [pc EXCEPT ![c] = IF board[c] # NoRow THEN "fetchTasks" ELSE @]
                /\ toasts' = [toasts EXCEPT ![c] = <<"Success">>]
           ELSE /\ UNCHANGED <<db_tasks, pc>>
                /\ toasts' = [toasts EXCEPT ![c] = <<"Error">>]
        /\ UNCHANGED <<user, projectTables, db_task_assignments, db_comments, nextId, resp,
                       dashVars, boardVars>>

\* handleSaveTask with editedTask holding title and status (title stands for
\* title, description and due_date): all the form's fields go to the row of
\* the snapshot's id; then the Success toast and onTaskUpdate's fetchTasks
saveTask(c, title, status, ok) ==
    LET hit == TasksHit(user[c], selectedTask[c].id)
        saved == {[t EXCEPT !.title = title, !.status = status] : t \in hit}
    IN  /\ calls' = [calls EXCEPT ![c] = <<Call("update", "tasks", NoRow, ok)>>]
        /\ IF ok
           THEN /\ db_tasks' = (db_tasks \ hit) \cup saved
                /\ pc' = [pc EXCEPT ![c] = IF board[c] # NoRow THEN "fetchTasks" ELSE @]
                /\ toasts' = [toasts EXCEPT ![c] = <<"Success">>]
           ELSE /\ UNCHANGED <<db_tasks, pc>>
                /\ toasts' = [toasts EXCEPT ![c] = <<"Error">>]
        /\ UNCHANGED <<user, projectTables, db_task_assignments, db_comments, nextId, resp,
                       dashVars, boardVars>>

\* handleSaveTask after the status select was used (or not): the other
\* fields are the snapshot's
handleSaveTask(c) ==
    /\ ModalShown(c)
    /\ \E status \in task_status, ok \in BOOLEAN :
         saveTask(c, selectedTask[c].title, status, ok)

\* the titles the form's inputs can hold
Titles == 0..MaxTitle

\* handleSaveTask after any edits of the form: editedTask starts as the
\* snapshot and every field of it may have been typed over
handleSaveEditedTask(c) ==
    /\ ModalShown(c)
    /\ \E title \in Titles, status \in task_status, ok \in BOOLEAN :
         saveTask(c, title, status, ok)

\* the users the modal's assignee buttons name: Remove for the snapshot's
\* assignees, Add for the project's members (fetchProjectMembers' rows)
AssignChoices(c) ==
    selectedTask[c].assignees
        \cup {m.user_id : m \in {x \in VisibleMembers(user[c]) : x.project_id = project[c].id}}

\* handleAssignUser: a delete when the snapshot lists the user as assignee,
\* else an insert; then onTaskUpdate and the Success toast
handleAssignUser(c) ==
    /\ ModalShown(c)
    /\ \E userId \in AssignChoices(c), ok \in BOOLEAN :
         LET isAssigned == userId \in selectedTask[c].assignees
             gone == {a \in db_task_assignments :
                         /\ a.task_id = selectedTask[c].id /\ a.user_id = userId
                         /\ PolicyAssignmentsAll(user[c], a)}
             row == [id |-> nextId, task_id |-> selectedTask[c].id, user_id |-> userId]
             done == ok /\ (isAssigned \/ AssignmentInsertOk(user[c], row))
         IN  /\ isAssigned \/ nextId <= BoardIds + MaxTasks + MaxAssigns
             /\ calls' = [calls EXCEPT ![c] =
                            <<Call(IF isAssigned THEN "delete" ELSE "insert", "task_assignments",
                                   [row EXCEPT !.id = 0], done)>>]
             /\ IF done
                THEN /\ db_task_assignments' =
                            IF isAssigned THEN db_task_assignments \ gone
                            ELSE db_task_assignments \cup {row}
                     /\ nextId' = IF isAssigned THEN nextId ELSE nextId + 1
                     /\ pc' = [pc EXCEPT ![c] = IF board[c] # NoRow THEN "fetchTasks" ELSE @]
                     /\ toasts' = [toasts EXCEPT ![c] = <<"Success">>]
                ELSE /\ UNCHANGED <<db_task_assignments, nextId, pc>>
                     /\ toasts' = [toasts EXCEPT ![c] = <<"Error">>]
    /\ UNCHANGED <<user, projectTables, db_tasks, db_comments, resp, dashVars, boardVars>>

\* handleDeleteTask (confirmed): the delete, then onTaskUpdate and onClose
handleDeleteTask(c) ==
    /\ ModalShown(c)
    /\ \E ok \in BOOLEAN :
         LET gone == TasksHit(user[c], selectedTask[c].id)
         IN  /\ calls' = [calls EXCEPT ![c] = <<Call("delete", "tasks", NoRow, ok)>>]
             /\ IF ok
                THEN /\ db_tasks' = db_tasks \ gone
                     /\ db_task_assignments' = AssignmentsWithout(gone)
                     /\ db_comments' = CommentsWithout(gone)
                     /\ pc' = [pc EXCEPT ![c] = IF board[c] # NoRow THEN "fetchTasks" ELSE @]
                     /\ selectedTask' = [selectedTask EXCEPT ![c] = NoRow]
                     /\ toasts' = [toasts EXCEPT ![c] = <<"Success">>]
                ELSE /\ UNCHANGED <<taskTables, pc, selectedTask>>
                     /\ toasts' = [toasts EXCEPT ![c] = <<"Error">>]
    /\ UNCHANGED <<user, projectTables, nextId, resp, dashVars, board, tasks, newTaskStatus>>

\* openTaskModal followed by TaskModal's useEffect: the card is clicked, the
\* modal renders, and the effect calls fetchComments() and
\* fetchProjectMembers() one after the other without awaiting either, so
\* both selects are sent
openTaskModal_useEffect(c) ==
    /\ BoardShown(c)
    /\ \E i \in 1..Len(tasks[c]) : selectedTask' = [selectedTask EXCEPT ![c] = tasks[c][i]]
    /\ pc' = [pc EXCEPT ![c] = "modalFetches"]
    /\ calls' = [calls EXCEPT ![c] = <<>>]
    /\ toasts' = [toasts EXCEPT ![c] = <<>>]
    /\ UNCHANGED <<user, storeVars, resp, dashVars, board, tasks, newTaskStatus>>

\* fetchComments: the answer of its select arrives; an error raises a toast
fetchComments(c) ==
    /\ pc[c] \in {"modalFetches", "fetchComments"}
    /\ \E ok \in BOOLEAN :
         /\ calls' = [calls EXCEPT ![c] = Append(@, Call("select", "comments", NoRow, ok))]
         /\ toasts' = [toasts EXCEPT ![c] = IF ok THEN @ ELSE Append(@, "Error")]
    /\ pc' = [pc EXCEPT ![c] = IF @ = "modalFetches" THEN "fetchProjectMembers" ELSE "idle"]
    /\ UNCHANGED <<user, storeVars, resp, dashVars, boardVars>>

\* fetchProjectMembers: the answer of its select arrives; an error raises a toast
fetchProjectMembers(c) ==
    /\ pc[c] \in {"modalFetches", "fetchProjectMembers"}
    /\ \E ok \in BOOLEAN :
         /\ calls' = [calls EXCEPT ![c] =
                        Append(@, Call("select", "project_members", NoRow, ok))]
         /\ toasts' = [toasts EXCEPT ![c] = IF ok THEN @ ELSE Append(@, "Error")]
    /\ pc' = [pc EXCEPT ![c] = IF @ = "modalFetches" THEN "fetchComments" ELSE "idle"]
    /\ UNCHANGED <<user, storeVars, resp, dashVars, boardVars>>

\* the tables of the store calls client c has sent and not yet had answered:
\* pc names the call, or the calls, its running handler waits for
InFlight(c) ==
    CASE pc[c] = "fetchProjects" -> {"projects"}
      [] pc[c] = "memberInsert" -> {"project_members"}
      [] pc[c] = "boardInsert" -> {"boards"}
      [] pc[c] = "fetchTasks" -> {"tasks"}
      [] pc[c] = "modalFetches" -> {"comments", "project_members"}
      [] pc[c] = "fetchComments" -> {"comments"}
      [] pc[c] = "fetchProjectMembers" -> {"project_members"}
      [] OTHER -> {}

\* identity 1 has created a project on its dashboard and added the other
\* identities to it; it is signed in on client 1
InitProject ==
    /\ db_projects = {[id |-> 1, owner_id |-> 1]}
    /\ db_project_members =
          {[id |-> 2, project_id |-> 1, user_id |-> 1, role |-> "owner"]}
          \cup {[id |-> 1 + u, project_id |-> 1, user_id |-> u, role |-> "member"] :
                    u \in Users \ {1}}
    /\ db_boards = {[id |-> 2 + NumUsers, project_id |-> 1, position |-> 0]}
    /\ db_task_assignments = {}
    /\ db_comments = {}
    /\ nextId = BoardIds + 1
    /\ resp = NoResp
    /\ user = [c \in Clients |-> IF c = 1 THEN 1 ELSE 0]

\* the project's page is about to be opened on a board without tasks
InitBoard ==
    /\ InitProject
    /\ db_tasks = {}
    /\ InitViews

NextBoard ==
    \E c \in Clients :
        \/ fetchProjectData(c)
        \/ fetchTasks(c)
        \/ openCreateTaskDialog(c)
        \/ closeCreateTaskDialog(c)
        \/ handleCreateTask(c)
        \/ handleDragEnd(c)
        \/ openTaskModal(c)
        \/ onClose(c)
        \/ handleSaveTask(c)
        \/ handleDeleteTask(c)

SpecBoard == InitBoard /\ [][NextBoard]_vars

\* The create dialog on a board that already holds tasks: the board was
\* filled earlier (any statuses, any positions the board hands out) and
\* client 1 has loaded it.
InitCreate ==
    /\ InitProject
    /\ \E k \in 0..MaxLoaded :
         \E f \in [1..k -> task_status \X (0..MaxPosition)] :
            db_tasks = {[id |-> BoardIds - MaxLoaded + i, board_id |-> 2 + NumUsers,
                         title |-> 0, status |-> f[i][1], position |-> f[i][2],
                         created_by |-> 1] : i \in 1..k}
    /\ projects = [c \in Clients |-> <<>>]
    /\ project = [c \in Clients |-> IF c = 1 THEN [id |-> 1, owner_id |-> 1] ELSE NoRow]
    /\ board = [c \in Clients |-> IF c = 1 THEN [id |-> 2 + NumUsers, project_id |-> 1,
                                                  position |-> 0] ELSE NoRow]
    /\ tasks \in {[c \in Clients |-> IF c = 1 THEN rows ELSE <<>>] :
                     rows \in FetchTasksRows(1, 2 + NumUsers)}
    /\ newTaskStatus = [c \in Clients |-> ""]
    /\ selectedTask = [c \in Clients |-> NoRow]
    /\ pc = [c \in Clients |-> "idle"]
    /\ calls = [c \in Clients |-> <<>>]
    /\ toasts = [c \in Clients |-> <<>>]

NextCreate ==
    \E c \in Clients :
        \/ openCreateTaskDialog(c)
        \/ closeCreateTaskDialog(c)
        \/ handleCreateTask(c)
        \/ fetchTasks(c)

SpecCreate == InitCreate /\ [][NextCreate]_vars

\* Drags on a board that already holds tasks, loaded by client 1
NextDrag ==
    \E c \in Clients :
        \/ handleDragEnd(c)
        \/ fetchTasks(c)

SpecDrag == InitCreate /\ [][NextDrag]_vars

\* identity 1 has the project's page open in every client (two browser
\* sessions of the owner): each has loaded the board, which holds no task yet
InitShared ==
    /\ db_projects = {[id |-> 1, owner_id |-> 1]}
    /\ db_project_members =
          {[id |-> 2, project_id |-> 1, user_id |-> 1, role |-> "owner"]}
          \cup {[id |-> 1 + u, project_id |-> 1, user_id |-> u, role |-> "member"] :
                    u \in Users \ {1}}
    /\ db_boards = {[id |-> 2 + NumUsers, project_id |-> 1, position |-> 0]}
    /\ db_tasks = {}
    /\ db_task_assignments = {}
    /\ db_comments = {}
    /\ nextId = BoardIds + 1
    /\ resp = NoResp
    /\ user = [c \in Clients |-> 1]
    /\ projects = [c \in Clients |-> <<>>]
    /\ project = [c \in Clients |-> [id |-> 1, owner_id |-> 1]]
    /\ board = [c \in Clients |-> [id |-> 2 + NumUsers, project_id |-> 1, position |-> 0]]
    /\ tasks = [c \in Clients |-> <<>>]
    /\ newTaskStatus = [c \in Clients |-> ""]
    /\ selectedTask = [c \in Clients |-> NoRow]
    /\ pc = [c \in Clients |-> "idle"]
    /\ calls = [c \in Clients |-> <<>>]
    /\ toasts = [c \in Clients |-> <<>>]

NextShared ==
    \E c \in Clients :
        \/ openCreateTaskDialog(c)
        \/ closeCreateTaskDialog(c)
        \/ handleCreateTask(c)
        \/ fetchTasks(c)

SpecShared == InitShared /\ [][NextShared]_vars

\* identity 1 has the project's page open in every client (two browser
\* sessions of the owner); the board holds one task, in any column, and
\* every session has loaded it and opened its modal
InitEdit ==
    /\ db_projects = {[id |-> 1, owner_id |-> 1]}
    /\ db_project_members =
          {[id |-> 2, project_id |-> 1, user_id |-> 1, role |-> "owner"]}
          \cup {[id |-> 1 + u, project_id |-> 1, user_id |-> u, role |-> "member"] :
                    u \in Users \ {1}}
    /\ db_boards = {[id |-> 2 + NumUsers, project_id |-> 1, position |-> 0]}
    /\ \E st \in task_status :
         db_tasks = {[id |-> BoardIds, board_id |-> 2 + NumUsers, title |-> 0,
                      status |-> st, position |-> 0, created_by |-> 1]}
    /\ db_task_assignments = {}
    /\ db_comments = {}
    /\ nextId = BoardIds + 1
    /\ resp = NoResp
    /\ user = [c \in Clients |-> 1]
    /\ projects = [c \in Clients |-> <<>>]
    /\ project = [c \in Clients |-> [id |-> 1, owner_id |-> 1]]
    /\ board = [c \in Clients |-> [id |-> 2 + NumUsers, project_id |-> 1, position |-> 0]]
    /\ tasks \in {[c \in Clients |-> rows] : rows \in FetchTasksRows(1, 2 + NumUsers)}
    /\ newTaskStatus = [c \in Clients |-> ""]
    /\ selectedTask = [c \in Clients |-> tasks[c][1]]
    /\ pc = [c \in Clients |-> "idle"]
    /\ calls = [c \in Clients |-> <<>>]
    /\ toasts = [c \in Clients |-> <<>>]

\* saves from the open modals; a session that closed its modal drags
NextEdit ==
    \E c \in Clients :
        \/ onClose(c)
        \/ handleSaveEditedTask(c)
        \/ handleDragEnd(c)
        \/ fetchTasks(c)

SpecEdit == InitEdit /\ [][NextEdit]_vars

\* client 1 has loaded the project's board, which holds one task
InitModal ==
    /\ InitProject
    /\ db_tasks = {[id |-> BoardIds, board_id |-> 2 + NumUsers, title |-> 0,
                    status |-> "todo", position |-> 0, created_by |-> 1]}
    /\ projects = [c \in Clients |-> <<>>]
    /\ project = [c \in Clients |-> IF c = 1 THEN [id |-> 1, owner_id |-> 1] ELSE NoRow]
    /\ board = [c \in Clients |-> IF c = 1 THEN [id |-> 2 + NumUsers, project_id |-> 1,
                                                  position |-> 0] ELSE NoRow]
    /\ tasks \in {[c \in Clients |-> IF c = 1 THEN rows ELSE <<>>] :
                     rows \in FetchTasksRows(1, 2 + NumUsers)}
    /\ newTaskStatus = [c \in Clients |-> ""]
    /\ selectedTask = [c \in Clients |-> NoRow]
    /\ pc = [c \in Clients |-> "idle"]
    /\ calls = [c \in Clients |-> <<>>]
    /\ toasts = [c \in Clients |-> <<>>]

\* the task modal with its mount effect, and the modal's handlers
NextModal ==
    \E c \in Clients :
        \/ openTaskModal_useEffect(c)
        \/ fetchComments(c)
        \/ fetchProjectMembers(c)
        \/ onClose(c)
        \/ handleSaveTask(c)
        \/ handleAssignUser(c)
        \/ handleDeleteTask(c)
        \/ fetchTasks(c)

SpecModal == InitModal /\ [][NextModal]_vars

\* One session of identity 1, from its dashboard to the project's page: the
\* project exists, no task does (one was created and deleted before)
InitWrites ==
    /\ db_projects = {[id |-> 1, owner_id |-> 1]}
    /\ db_project_members =
          {[id |-> 2, project_id |-> 1, user_id |-> 1, role |-> "owner"]}
          \cup {[id |-> 1 + u, project_id |-> 1, user_id |-> u, role |-> "member"] :
                    u \in Users \ {1}}
    /\ db_boards = {[id |-> 2 + NumUsers, project_id |-> 1, position |-> 0]}
    /\ db_tasks = {}
    /\ db_task_assignments = {}
    /\ db_comments = {}
    /\ nextId = BoardIds + MaxTasks
    /\ resp = NoResp
    /\ user = [c \in Clients |-> IF c = 1 THEN 1 ELSE 0]
    /\ InitViews

\* the dashboard is the page shown: somebody is signed in and no board is loaded
OnDashboard(c) == user[c] # 0 /\ board[c] = NoRow

\* the dashboard while no board is loaded, then the project's page
NextWrites ==
    \E c \in Clients :
        \/ OnDashboard(c) /\ Mount(c)
        \/ OnDashboard(c) /\ fetchProjects(c)
        \/ OnDashboard(c) /\ handleCreateProject(c)
        \/ OnDashboard(c) /\ createProjectMember(c)
        \/ OnDashboard(c) /\ createProjectBoard(c)
        \/ fetchProjectData(c)
        \/ fetchTasks(c)
        \/ openCreateTaskDialog(c)
        \/ closeCreateTaskDialog(c)
        \/ handleCreateTask(c)
        \/ handleDragEnd(c)
        \/ openTaskModal(c)
        \/ onClose(c)
        \/ handleSaveTask(c)
        \/ handleAssignUser(c)
        \/ handleDeleteTask(c)

SpecWrites == InitWrites /\ [][NextWrites]_vars

\* =================================================================== claims
\* uid has a project_members row in project pid
IsMember(uid, pid) ==
    \E m \in db_project_members : m.project_id = pid /\ m.user_id = uid

\* client c's last user action was handleCreateProject and all three inserts succeeded
CreateProjectCompleted(c) ==
    /\ Len(calls[c]) >= 3
    /\ calls[c][3].table = "boards"
    /\ calls[c][3].ok

\* C2: every project row has a project_members row for its owner, in every
\* reachable state (between the steps of handleCreateProject and after a
\* failed step too)
C2_OwnerMembershipAlways ==
    \A p \in db_projects : IsMember(p.owner_id, p.id)

\* C6: once handleCreateProject has completed without error for identity U,
\* the store holds exactly one new project owned by U, exactly one
\* membership row (that project, U) and its role is owner, exactly one board
\* of that project; no identity without a membership in it gets it listed
C6_CreateProjectResult ==
    \A c \in Clients : CreateProjectCompleted(c) =>
        LET pid == project[c].id IN
        /\ Cardinality({p \in db_projects : p.owner_id = user[c] /\ p.id >= pid}) = 1
        /\ \E p \in db_projects : p.id = pid /\ p.owner_id = user[c]
        /\ Cardinality({m \in db_project_members : m.project_id = pid /\ m.user_id = user[c]}) = 1
        /\ \A m \in db_project_members :
              m.project_id = pid /\ m.user_id = user[c] => m.role = "owner"
        /\ Cardinality({b \in db_boards : b.project_id = pid}) = 1
        /\ \A d \in Clients : ~IsMember(user[d], pid) =>
              /\ \A r \in Range(FetchProjectsRows(user[d])) : r.id # pid
              /\ \A r \in Range(projects[d]) : r.id # pid

\* C6 witness: a completed creation while another identity, not a member,
\* has loaded its own list
C6_Witness ==
    \E c \in Clients, d \in Clients :
        /\ CreateProjectCompleted(c)
        /\ ~IsMember(user[d], project[c].id)
        /\ db_projects # {} /\ Len(calls[d]) > 0 /\ calls[d][Len(calls[d])].table = "projects"
        /\ calls[d][Len(calls[d])].op = "select" /\ calls[d][Len(calls[d])].ok

\* C7: when the membership insert or the board insert fails after the
\* project insert succeeded, the step changes no table (no delete, no
\* compensation), the project row stays, the handler stops (no further call)
\* and exactly one Error notification is raised; a failed call is always the
\* last call of its user action and no call is a delete
C7_NoCompensation ==
    /\ [](\A c \in Clients : \A i \in 1..Len(calls[c]) :
            /\ calls[c][i].op # "delete"
            /\ (~calls[c][i].ok => i = Len(calls[c]) /\ pc[c] = "idle"))
    /\ [][\A c \in Clients :
            (pc[c] \in {"memberInsert", "boardInsert"} /\ pc'[c] = "idle") =>
                /\ projectTables' = projectTables
                /\ project[c] \in db_projects'
                /\ Len(calls'[c]) = Len(calls[c]) + 1
                /\ ~calls'[c][Len(calls'[c])].ok
                /\ toasts'[c] = Append(toasts[c], "Error")
                /\ "Success" \notin Range(toasts'[c])]_vars

\* C7 witness: the membership insert failed and the project is still there
C7_Witness ==
    \E c \in Clients :
        /\ pc[c] = "idle"
        /\ Len(calls[c]) = 2
        /\ calls[c][2].table = "project_members" /\ ~calls[c][2].ok
        /\ project[c] \in db_projects
        /\ toasts[c] = <<"Error">>

\* C8: handleCreateProject issues its inserts in the order projects,
\* project_members (role owner), boards, each one only after the one before
\* it succeeded
C8_InsertOrder ==
    \A c \in Clients :
        (Len(calls[c]) > 0 /\ calls[c][1].op = "insert") =>
            /\ calls[c][1].table = "projects"
            /\ Len(calls[c]) >= 2 =>
                  /\ calls[c][1].ok
                  /\ calls[c][2].op = "insert" /\ calls[c][2].table = "project_members"
                  /\ calls[c][2].row.role = "owner"
                  /\ calls[c][2].row.project_id = calls[c][1].row.id
                  /\ calls[c][2].row.user_id = calls[c][1].row.owner_id
            /\ Len(calls[c]) >= 3 =>
                  /\ calls[c][2].ok
                  /\ calls[c][3].op = "insert" /\ calls[c][3].table = "boards"
                  /\ calls[c][3].row.project_id = calls[c][1].row.id
            /\ Len(calls[c]) >= 4 =>
                  calls[c][3].ok /\ calls[c][4].op = "select"

\* C8 witness: all three inserts were issued
C8_Witness ==
    \E c \in Clients :
        /\ Len(calls[c]) = 3
        /\ calls[c][3].table = "boards"

\* C9: a successful fetchProjects leaves in the list exactly the projects
\* the identity owns or has a membership row in
C9_FetchShowsViewable ==
    [][\A c \in Clients :
        (pc[c] = "fetchProjects" /\ pc'[c] = "idle" /\ calls'[c][Len(calls'[c])].ok) =>
            {r.id : r \in Range(projects'[c])}
                = {p.id : p \in {x \in db_projects :
                                    x.owner_id = user[c] \/ IsMember(user[c], x.id)}}]_vars
\* uid has a project_members row in the project of board bid
IsBoardMember(uid, bid) ==
    \E b \in db_boards : b.id = bid /\ IsMember(uid, b.project_id)

\* uid has a project_members row in the project of task tid
IsTaskMember(uid, tid) ==
    \E t \in db_tasks : t.id = tid /\ IsBoardMember(uid, t.board_id)

\* C1: any two distinct tasks of one board and one status have different
\* positions, in every state the board's handlers reach
C1_UniquePositions ==
    \A t1 \in db_tasks, t2 \in db_tasks :
        (t1 # t2 /\ t1.board_id = t2.board_id /\ t1.status = t2.status)
            => t1.position # t2.position

\* C3: a select of projects returns a project row exactly when the caller
\* owns it or has a project_members row in it
C3_CanView ==
    (resp.op = "select" /\ resp.table = "projects") =>
        \A p \in db_projects :
            p \in resp.rows <=> (p.owner_id = resp.uid \/ IsMember(resp.uid, p.id))

\* C4: an insert, update or delete of a task or task assignment, or an
\* insert of a comment, sent by an identity without a project_members row in
\* the row's project changes no table (and an insert is answered with an
\* error); a comment is stored only when its author is the caller and the
\* caller is a member of the task's project when it is sent
C4_NonMemberWritesRejected ==
    [][(resp = NoResp /\ resp' # NoResp /\ resp'.op \in {"insert", "update", "delete"}
            /\ resp'.table \in {"tasks", "task_assignments", "comments"}) =>
        LET uid == resp'.uid
            row == resp'.row
            member == IF resp'.table = "tasks" THEN IsBoardMember(uid, row.board_id)
                      ELSE IsTaskMember(uid, row.task_id)
        IN  /\ ~member =>
                /\ taskTables' = taskTables
                /\ resp'.rows = {}
                /\ resp'.op = "insert" => ~resp'.ok
            /\ (resp'.table = "comments" /\ db_comments' # db_comments) =>
                    (row.user_id = uid /\ member)]_vars

\* C4 witness: an identity outside the project asked to delete a task, and
\* the task is still there
C4_Witness ==
    /\ resp.op = "delete" /\ resp.table = "tasks"
    /\ ~IsBoardMember(resp.uid, resp.row.board_id)
    /\ resp.row \in db_tasks
    /\ resp.rows = {}

\* C5: every task_assignments row names a user with a project_members row in
\* the project of the task's board (an assignment of anybody else is refused)
C5_AssigneesAreMembers ==
    \A a \in db_task_assignments : IsTaskMember(a.user_id, a.task_id)

\* C10: the task handleCreateTask inserts has the status of the chosen
\* column, and its position is 0 when the loaded list has no task of that
\* status, else one more than the largest position among them
C10_InsertPosition ==
    [][\A c \in Clients :
        (pc[c] = "createTaskOpen" /\ pc'[c] = "fetchTasks") =>
            \E t \in db_tasks' :
                /\ t \notin db_tasks
                /\ db_tasks' = db_tasks \cup {t}
                /\ t.status = newTaskStatus[c]
                /\ LET col == {x \in Range(tasks[c]) : x.status = newTaskStatus[c]}
                   IN  IF col = {} THEN t.position = 0
                       ELSE /\ \E x \in col : t.position = x.position + 1
                            /\ \A x \in col : x.position < t.position]_vars

\* C10 witness: the loaded column holds positions 0 and 2 and the new task got 3
C10_Witness ==
    \E c \in Clients :
        /\ pc[c] = "fetchTasks"
        /\ {x.position : x \in {y \in Range(tasks[c]) : y.status = newTaskStatus[c]}} = {0, 2}
        /\ \E t \in db_tasks :
              t.id = nextId - 1 /\ t.status = newTaskStatus[c] /\ t.position = 3
\* the rows of column (bid, status) in a tasks table
ColumnRows(rows, bid, status) == {t \in rows : t.board_id = bid /\ t.status = status}

\* the positions of a column are exactly 0, 1, ..., n-1, none twice
Contiguous(rows, bid, status) ==
    LET col == ColumnRows(rows, bid, status)
    IN  /\ {t.position : t \in col} = 0..(Cardinality(col) - 1)
        /\ \A t1 \in col, t2 \in col : t1.position = t2.position => t1 = t2

\* C12: a drag that writes to the store leaves the positions of its source
\* column and of its destination column exactly 0..n-1, without gap or
\* repeat, when they were so before it
C12_DragKeepsContiguous ==
    [][\A c \in Clients : BoardShown(c) =>
        \A d \in DropResults(c) :
            (/\ ~DropInPlace(d)
             /\ dragEnd(c, d, TRUE)
             /\ Contiguous(db_tasks, board[c].id, STATUS_COLUMNS[d[1]])
             /\ Contiguous(db_tasks, board[c].id, STATUS_COLUMNS[d[3]]))
            => /\ Contiguous(db_tasks', board[c].id, STATUS_COLUMNS[d[1]])
               /\ Contiguous(db_tasks', board[c].id, STATUS_COLUMNS[d[3]])]_vars

\* C13: a drop on no destination, or on the source column at the source
\* index, issues no store call and no refetch, raises no notification, and
\* leaves the store and the client's task list as they were
C13_DropInPlaceNoWrite ==
    [][\A c \in Clients : BoardShown(c) =>
        \A d \in DropResults(c), ok \in BOOLEAN :
            (DropInPlace(d) /\ dragEnd(c, d, ok))
            => /\ storeVars' = storeVars
               /\ tasks' = tasks
               /\ calls'[c] = <<>>
               /\ toasts'[c] = <<>>
               /\ pc'[c] = "idle"]_vars

\* C13 witness: a drop in place has acted (the user action issued no call
\* and raised no notification) on a list that an earlier failed refetch
\* left behind the store, and the list is still the old one
C13_Witness ==
    \E c \in Clients :
        /\ BoardShown(c)
        /\ calls[c] = <<>> /\ toasts[c] = <<>>
        /\ Len(tasks[c]) >= 2
        /\ tasks[c] \notin FetchTasksRows(user[c], board[c].id)

\* C19: a drop elsewhere issues exactly one store call, an update; when it
\* succeeds the dragged row gets the destination column as status and the
\* destination index as position and keeps its other fields, every other
\* row of every table is as before, and no task is created or deleted
C19_DragWritesOneRow ==
    [][\A c \in Clients : BoardShown(c) =>
        \A d \in DropResults(c), ok \in BOOLEAN :
            (~DropInPlace(d) /\ dragEnd(c, d, ok))
            => /\ calls'[c] = <<Call("update", "tasks", NoRow, ok)>>
               /\ {t.id : t \in db_tasks'} = {t.id : t \in db_tasks}
               /\ Cardinality(db_tasks') = Cardinality(db_tasks)
               /\ \A t \in db_tasks : t.id # draggableId(c, d) => t \in db_tasks'
               /\ \A t \in db_tasks : t.id = draggableId(c, d) =>
                     IF ok
                     THEN [t EXCEPT !.status = STATUS_COLUMNS[d[3]], !.position = d[4]]
                              \in db_tasks'
                     ELSE t \in db_tasks'
               /\ <<projectTables, db_task_assignments, db_comments>>'
                     = <<projectTables, db_task_assignments, db_comments>>]_vars

\* C19 witness: a drag has just written, and the dragged card now shares its
\* position with a sibling that was not renumbered
C19_Witness ==
    \E c \in Clients :
        /\ pc[c] = "fetchTasks"
        /\ calls[c] = <<Call("update", "tasks", NoRow, TRUE)>>
        /\ toasts[c] = <<>>
        /\ \E t1 \in db_tasks, t2 \in db_tasks :
              /\ t1 # t2 /\ t1.board_id = t2.board_id
              /\ t1.status = t2.status /\ t1.position = t2.position
\* C11: when positions are unique within every column of the store, the task
\* a successful handleCreateTask inserts has a position larger than that of
\* every other task of its board and status in the store (it is last in its
\* column and collides with none), whatever other clients wrote since this
\* client's last fetchTasks
C11_CreateAppendsLast ==
    [][\A c \in Clients :
        (pc[c] = "createTaskOpen" /\ pc'[c] = "fetchTasks" /\ C1_UniquePositions) =>
            \E t \in db_tasks' \ db_tasks :
                \A x \in db_tasks :
                    (x.board_id = t.board_id /\ x.status = t.status)
                        => x.position < t.position]_vars
\* C15: when a delete of a project removes it, no membership or board row of
\* that project, no task of its boards and no assignment or comment of those
\* tasks is left in the store
C15_DeleteProjectCascades ==
    [][(resp = NoResp /\ resp' # NoResp /\ resp'.op = "delete"
            /\ resp'.table = "projects" /\ resp'.rows # {}) =>
        LET p == resp'.row
            boardsOf == {b.id : b \in {x \in db_boards : x.project_id = p.id}}
            tasksOf == {t.id : t \in {x \in db_tasks : x.board_id \in boardsOf}}
        IN  /\ p \notin db_projects'
            /\ \A m \in db_project_members' : m.project_id # p.id
            /\ \A b \in db_boards' : b.project_id # p.id /\ b.id \notin boardsOf
            /\ \A t \in db_tasks' : t.board_id \notin boardsOf /\ t.id \notin tasksOf
            /\ \A a \in db_task_assignments' : a.task_id \notin tasksOf
            /\ \A cm \in db_comments' : cm.task_id \notin tasksOf]_vars

\* C15 witness: a project has just been deleted by its owner, after three
\* rows had been created below the projects, and no task, assignment or
\* comment is left while another project and its board are
C15_Witness ==
    /\ resp.op = "delete" /\ resp.table = "projects" /\ resp.rows # {}
    /\ nextId = InitIds + MaxNewIds + 1
    /\ db_tasks = {} /\ db_task_assignments = {} /\ db_comments = {}
    /\ db_projects # {} /\ db_boards # {}
\* a store call that writes
IsWrite(call) == call.op \in {"insert", "update", "delete"}

\* C14: there is never more than one task_assignments row per (task, user);
\* a handleAssignUser insert for a user the store already holds as assignee
\* of the task stores nothing, ends with an error that is reported (one
\* Error notification) and triggers no refetch
C14_AssignmentsUnique ==
    /\ [](\A a1 \in db_task_assignments, a2 \in db_task_assignments :
            (a1.task_id = a2.task_id /\ a1.user_id = a2.user_id) => a1 = a2)
    /\ [][\A c \in Clients :
            (/\ ModalShown(c)
             /\ calls'[c] # calls[c]
             /\ Len(calls'[c]) = 1
             /\ calls'[c][1].op = "insert" /\ calls'[c][1].table = "task_assignments"
             /\ \E x \in db_task_assignments :
                   /\ x.task_id = calls'[c][1].row.task_id
                   /\ x.user_id = calls'[c][1].row.user_id)
            => /\ ~calls'[c][1].ok
               /\ db_task_assignments' = db_task_assignments
               /\ toasts'[c] = <<"Error">>
               /\ pc'[c] = pc[c]]_vars

\* C14 witness: the insert for a user who is already assigned in the store
\* (the modal's snapshot does not show it yet) has failed and was reported
C14_Witness ==
    \E c \in Clients :
        /\ ModalShown(c)
        /\ Len(calls[c]) = 1
        /\ calls[c][1].op = "insert" /\ calls[c][1].table = "task_assignments"
        /\ ~calls[c][1].ok
        /\ toasts[c] = <<"Error">>
        /\ \E x \in db_task_assignments :
              x.task_id = calls[c][1].row.task_id /\ x.user_id = calls[c][1].row.user_id

\* C16: when a write issued by a handler fails, the handler ends there (the
\* failed write is the last call of the user action, no call is pending, so
\* nothing is retried), exactly one Error notification and no Success is
\* raised for the action, no table changes, and the client's task list and
\* project list are what they were before the write
C16_WriteFailureReported ==
    /\ [](\A c \in Clients : \A i \in 1..Len(calls[c]) :
            (IsWrite(calls[c][i]) /\ ~calls[c][i].ok) =>
                /\ i = Len(calls[c])
                /\ pc[c] \in {"idle", "createTaskOpen"}
                /\ Cardinality({k \in 1..Len(toasts[c]) : toasts[c][k] = "Error"}) = 1
                /\ "Success" \notin Range(toasts[c]))
    /\ [][\A c \in Clients :
            (/\ calls'[c] # calls[c]
             /\ Len(calls'[c]) > 0
             /\ IsWrite(calls'[c][Len(calls'[c])])
             /\ ~calls'[c][Len(calls'[c])].ok)
            => /\ storeVars' = storeVars
               /\ tasks' = tasks
               /\ projects' = projects]_vars

\* C16 witness: a drag's update has failed: one Error notification, the
\* board still shown with its list
C16_Witness ==
    \E c \in Clients :
        /\ BoardShown(c)
        /\ tasks[c] # <<>>
        /\ calls[c] = <<Call("update", "tasks", NoRow, FALSE)>>
        /\ toasts[c] = <<"Error">>
\* C17: after a fetchProjects whose select failed, the dashboard's list is
\* empty and an Error notification was raised, also when an earlier fetch
\* had filled the list
C17_ReadFailureEmpties ==
    [][\A c \in Clients :
        (/\ pc[c] = "fetchProjects" /\ pc'[c] = "idle"
         /\ ~calls'[c][Len(calls'[c])].ok)
        => /\ projects'[c] = <<>>
           /\ toasts'[c] # <<>>
           /\ toasts'[c][Len(toasts'[c])] = "Error"]_vars
\* the columns the board renders: getTasksByStatus of each of STATUS_COLUMNS
RenderedColumns(c) ==
    [k \in 1..Len(STATUS_COLUMNS) |-> getTasksByStatus(tasks[c], STATUS_COLUMNS[k])]

\* C18: the four rendered columns hold every task of the list exactly once,
\* each in the column of its status, and each column ascends by position
C18_ColumnsPartitionTasks ==
    \A c \in Clients :
        LET cols == RenderedColumns(c)
            places(t) == {<<k, j>> \in (1..Len(cols)) \X (1..Len(tasks[c])) :
                             j <= Len(cols[k]) /\ cols[k][j] = t}
        IN  /\ \A i \in 1..Len(tasks[c]) :
                 /\ Cardinality(places(tasks[c][i])) = 1
                 /\ \A pl \in places(tasks[c][i]) : STATUS_COLUMNS[pl[1]] = tasks[c][i].status
            /\ \A k \in 1..Len(cols) :
                 /\ \A j \in 1..Len(cols[k]) : \E i \in 1..Len(tasks[c]) : cols[k][j] = tasks[c][i]
                 /\ \A i, j \in 1..Len(cols[k]) :
                        i < j => cols[k][i].position <= cols[k][j].position

\* a board, reloaded after a drag between columns, whose second column
\* renders two tasks of different positions
C18_Witness ==
    \E c \in Clients :
        /\ BoardShown(c)
        /\ Len(calls[c]) = 2
        /\ calls[c][1].op = "update" /\ calls[c][2].ok
        /\ Len(RenderedColumns(c)[2]) = 2
        /\ RenderedColumns(c)[2][1].position < RenderedColumns(c)[2][2].position
\* C20: a save is never refused because of what another session wrote (the
\* open modal can always save), and the step of a successful save reports
\* Success and leaves the stored task with exactly the title and status the
\* form sent, whatever the store held before
C20_LaterSaveWins ==
    /\ [](\A c \in Clients : ModalShown(c) =>
            \A title \in Titles, status \in task_status :
                ENABLED saveTask(c, title, status, TRUE))
    /\ [][\A c \in Clients : (ModalShown(c) /\ calls'[c] # calls[c]) =>
          \A title \in Titles, status \in task_status :
            saveTask(c, title, status, TRUE)
            => /\ toasts'[c] = <<"Success">>
               /\ \A t \in db_tasks' : t.id = selectedTask[c].id =>
                    /\ t.title = title
                    /\ t.status = status]_vars

\* two sessions have the same task open and both saved with success: the
\* first reloaded and lists the title it sent; the second then saved its
\* snapshot's title with another status, and the store holds the second's values
C20_Witness ==
    \E a, b \in Clients :
        /\ a # b
        /\ selectedTask[a] # NoRow /\ selectedTask[b] # NoRow
        /\ selectedTask[a].id = selectedTask[b].id
        /\ Len(calls[a]) = 2 /\ calls[a][1].op = "update" /\ calls[a][1].ok /\ calls[a][2].ok
        /\ calls[b] = <<Call("update", "tasks", NoRow, TRUE)>>
        /\ toasts[a] = <<"Success">> /\ toasts[b] = <<"Success">>
        /\ \E i \in 1..Len(tasks[a]) :
             /\ tasks[a][i].id = selectedTask[a].id
             /\ tasks[a][i].title # selectedTask[b].title
        /\ \E t \in db_tasks :
             /\ t.id = selectedTask[b].id
             /\ t.title = selectedTask[b].title
             /\ t.status # selectedTask[b].status
\* C22: a select of project_members returns a row only to a caller that has
\* a project_members row of its own in the row's project
C22_MembersReadScoped ==
    (resp.op = "select" /\ resp.table = "project_members") =>
        \A r \in resp.rows : IsMember(resp.uid, r.project_id)
\* the stored tasks whose column or position is not the one client c's list shows
MovedSinceLoad(c) ==
    {t \in db_tasks : ~\E i \in 1..Len(tasks[c]) :
        /\ tasks[c][i].id = t.id
        /\ tasks[c][i].status = t.status
        /\ tasks[c][i].position = t.position}

\* C23: when a drag's update succeeded on a board whose columns all had the
\* positions 0..n-1, the list that fetchTasks then loads shows the dragged
\* task in the destination column at the destination index (the status and
\* the position the update wrote)
C23_ShownAtDropIndex ==
    [][\A c \in Clients :
        (/\ pc[c] = "fetchTasks" /\ pc'[c] = "idle"
         /\ calls[c] = <<Call("update", "tasks", NoRow, TRUE)>>
         /\ calls'[c][2].ok
         /\ Len(tasks[c]) = Cardinality(db_tasks)
         /\ Cardinality(MovedSinceLoad(c)) = 1
         /\ \A st \in task_status : Contiguous(Range(tasks[c]), board[c].id, st))
        => \A t \in MovedSinceLoad(c) :
              LET col == getTasksByStatus(tasks'[c], t.status)
              IN  /\ Len(col) > t.position
                  /\ col[t.position + 1].id = t.id]_vars
\* C25: every project listed on a client's dashboard has a board that the
\* client's identity can read
C25_ListedProjectHasBoard ==
    \A c \in Clients : \A i \in 1..Len(projects[c]) :
        \E b \in VisibleBoards(user[c]) : b.project_id = projects[c][i].id
\* C24: in one modal session, when handleAssignUser has assigned a user (its
\* insert succeeded and the board was refetched) and is called again for the
\* same user, the task's assignments are afterwards what they were before
\* the first call: the user is not assigned to the task
C24_AssignTwiceRestores ==
    [][\A c \in Clients :
        (/\ ModalShown(c)
         /\ Len(calls[c]) = 2
         /\ calls[c][1].op = "insert" /\ calls[c][1].table = "task_assignments"
         /\ calls[c][1].ok /\ calls[c][2].ok
         /\ Len(calls'[c]) = 1
         /\ calls'[c][1].table = "task_assignments"
         /\ calls'[c][1].row.user_id = calls[c][1].row.user_id)
        => ~\E a \in db_task_assignments' :
              /\ a.task_id = selectedTask[c].id
              /\ a.user_id = calls[c][1].row.user_id]_vars
\* C21: at no moment has a client more than one store call sent and not yet
\* answered
C21_OneCallOutstanding ==
    \A c \in Clients : Cardinality(InFlight(c)) <= 1
====
